---- MODULE Spec2Model ----
(***************************************************************************)
(* Model of code_SEGBOT/ae353_segbot-EoM.ipynb: the derivation of the      *)
(* segbot equations of motion  f = [v sin(phi); M^-1 (N + R tau)].         *)
(*                                                                         *)
(* The notebook manipulates symbolic expressions.  Here an expression is   *)
(* represented by its exact rational value at a valuation pt of the        *)
(* symbols (angles are taken on rational points of the unit circle, so     *)
(* sin and cos are exact), and the simplified f also by the coefficients   *)
(* of its closed form.  The decimal literals of the notebook are taken at  *)
(* their decimal value.  Numbers exceed 32 bits (M00^2 * M22 has a twelve  *)
(* digit numerator), so the arithmetic is on multi-limb naturals.          *)
(***************************************************************************)
EXTENDS Integers, Sequences, FiniteSets

\* ------------------------------------------------------------------------
\* Exact arithmetic: naturals as little-endian sequences of limbs in
\* 0..Base-1 without leading zero limb (<<>> is zero); rationals as records
\* [s, n, d] with sign s in {-1, 0, 1}, magnitude n and denominator d > 0.
\* ------------------------------------------------------------------------
Base == 10^4

RECURSIVE NFromInt(_)
NFromInt(i) ==
    IF i = 0 THEN <<>> ELSE <<i % Base>> \o NFromInt(i \div Base)

Rest(a) == IF a = <<>> THEN <<>> ELSE Tail(a)

Low(a) == IF a = <<>> THEN 0 ELSE a[1]

RECURSIVE NAddC(_, _, _)
NAddC(a, b, c) ==
    IF a = <<>> /\ c = 0 THEN b
    ELSE IF b = <<>> /\ c = 0 THEN a
    ELSE LET x == Low(a) + Low(b) + c
         IN  <<x % Base>> \o NAddC(Rest(a), Rest(b), x \div Base)

NAdd(a, b) == NAddC(a, b, 0)

RECURSIVE NTrim(_)
NTrim(a) ==
    IF a = <<>> THEN <<>>
    ELSE IF a[Len(a)] = 0 THEN NTrim(SubSeq(a, 1, Len(a) - 1))
    ELSE a

\* a - b - c for a >= b + c, untrimmed
RECURSIVE NSubB(_, _, _)
NSubB(a, b, c) ==
    IF b = <<>> /\ c = 0 THEN a
    ELSE LET x == Low(a) - Low(b) - c
         IN  IF x < 0 THEN <<x + Base>> \o NSubB(Rest(a), Rest(b), 1)
             ELSE <<x>> \o NSubB(Rest(a), Rest(b), 0)

NSub(a, b) == NTrim(NSubB(a, b, 0))

\* comparison of the limbs 1..i of two naturals of the same length
RECURSIVE NCmpAt(_, _, _)
NCmpAt(a, b, i) ==
    IF i = 0 THEN 0
    ELSE IF a[i] < b[i] THEN -1
    ELSE IF a[i] > b[i] THEN 1
    ELSE NCmpAt(a, b, i - 1)

NCmp(a, b) ==
    IF Len(a) < Len(b) THEN -1
    ELSE IF Len(a) > Len(b) THEN 1
    ELSE NCmpAt(a, b, Len(a))

RECURSIVE NMulC(_, _, _)
NMulC(a, j, c) ==
    IF a = <<>> THEN (IF c = 0 THEN <<>> ELSE <<c>>)
    ELSE LET x == a[1] * j + c
         IN  <<x % Base>> \o NMulC(Tail(a), j, x \div Base)

\* a * j for a limb j
NMulSmall(a, j) == IF j = 0 THEN <<>> ELSE NMulC(a, j, 0)

Shift(a) == IF a = <<>> THEN <<>> ELSE <<0>> \o a

RECURSIVE NMul(_, _)
NMul(a, b) ==
    IF a = <<>> \/ b = <<>> THEN <<>>
    ELSE IF Len(b) = 1 THEN NMulSmall(a, b[1])
    ELSE IF Len(a) = 1 THEN NMulSmall(b, a[1])
    ELSE NAdd(NMulSmall(a, b[1]), Shift(NMul(a, Tail(b))))

\* quotient and remainder of a by a limb j > 0
RECURSIVE NDivRem(_, _)
NDivRem(a, j) ==
    IF a = <<>> THEN [q |-> <<>>, r |-> 0]
    ELSE LET hi  == NDivRem(Tail(a), j)
             cur == hi.r * Base + a[1]
         IN  [q |-> IF hi.q = <<>> /\ cur < j THEN <<>>
                    ELSE <<cur \div j>> \o hi.q,
              r |-> cur % j]

\* the remainder of a by a limb j > 0
RECURSIVE NMod(_, _)
NMod(a, j) ==
    IF a = <<>> THEN 0 ELSE (NMod(Tail(a), j) * Base + a[1]) % j

\* the pair p = <<n, d>> with the common factors j of n and d removed
\* (j divides Base, or j = 13)
RECURSIVE Strip(_, _)
Strip(p, j) ==
    IF (IF Base % j = 0 THEN p[1][1] % j = 0 /\ p[2][1] % j = 0
        ELSE NMod(p[1], j) = 0 /\ NMod(p[2], j) = 0)
    THEN Strip(<< NDivRem(p[1], j).q, NDivRem(p[2], j).q >>, j)
    ELSE p

Rat(s, p) == [s |-> s, n |-> p[1], d |-> p[2]]

\* Denominators are products of 2, 5 and 13 (decimal literals, r_w = 13/40,
\* sines and cosines in fifths) until a division by a determinant.
QNorm(s, n, d) ==
    IF s = 0 \/ n = <<>> THEN [s |-> 0, n |-> <<>>, d |-> <<1>>]
    ELSE IF d = <<1>> THEN [s |-> s, n |-> n, d |-> d]
    ELSE Rat(s, Strip(Strip(Strip(<< n, d >>, 2), 5), 13))

Sgn(i) == IF i < 0 THEN -1 ELSE IF i > 0 THEN 1 ELSE 0

Abs(i) == IF i < 0 THEN -i ELSE i

\* the rational i / j for integers i and j > 0
Q(i, j) == QNorm(Sgn(i), NFromInt(Abs(i)), NFromInt(j))

Zero == Q(0, 1)

One == Q(1, 1)

QNeg(x) == [s |-> -x.s, n |-> x.n, d |-> x.d]

QMul(x, y) == QNorm(x.s * y.s, NMul(x.n, y.n), NMul(x.d, y.d))

QInv(x) == [s |-> x.s, n |-> x.d, d |-> x.n]

QDiv(x, y) == QMul(x, QInv(y))

\* sx * a / d + sy * b / d for magnitudes a, b and signs sx, sy; c = NCmp(a, b)
AddParts(sx, sy, a, b, d, c) ==
    IF sx = sy THEN QNorm(sx, NAdd(a, b), d)
    ELSE IF c = 0 THEN QNorm(0, <<>>, d)
    ELSE IF c > 0 THEN QNorm(sx, NSub(a, b), d)
    ELSE QNorm(sy, NSub(b, a), d)

AddAligned(sx, sy, a, b, d) == AddParts(sx, sy, a, b, d, NCmp(a, b))

QAdd(x, y) ==
    IF x.s = 0 THEN y
    ELSE IF y.s = 0 THEN x
    ELSE IF x.d = y.d THEN AddAligned(x.s, y.s, x.n, y.n, x.d)
    ELSE AddAligned(x.s, y.s, NMul(x.n, y.d), NMul(y.n, x.d), NMul(x.d, y.d))

QSub(x, y) == QAdd(x, QNeg(y))

QSq(x) == QMul(x, x)

QInt(i) == Q(i, 1)

\* sign of x - y
QCmp(x, y) ==
    IF x.s # y.s THEN Sgn(x.s - y.s)
    ELSE IF x.s = 0 THEN 0
    ELSE IF x.d = y.d THEN x.s * NCmp(x.n, y.n)
    ELSE x.s * NCmp(NMul(x.n, y.d), NMul(y.n, x.d))

QEq(x, y) == QCmp(x, y) = 0

QLt(x, y) == QCmp(x, y) < 0

QPos(x) == x.s = 1

Add3(x, y, z) == QAdd(QAdd(x, y), z)

Add4(x, y, z, w) == QAdd(Add3(x, y, z), w)

Mul3(x, y, z) == QMul(QMul(x, y), z)

Mul4(x, y, z, w) == QMul(Mul3(x, y, z), w)

Mul5(x, y, z, w, u) == QMul(Mul4(x, y, z, w), u)

\* ------------------------------------------------------------------------
\* Bounds of the valuations the symbols are given
\* ------------------------------------------------------------------------
MaxRate == 1        \* phidot and thetadot range over -1..MaxRate
MaxTorque == 1      \* tau_l, tau_r range over 0..MaxTorque
NumAngles == 5      \* theta ranges over the first NumAngles entries of Angles
NumStations == 2    \* station parameters compared: Stations[1..NumStations]

\* Rational points (sin, cos) of the unit circle, in all four quadrants,
\* upright (0, 1) and upside down (0, -1) included.
Angles ==
    << [s |-> Q(3, 5),  c |-> Q(4, 5)],
       [s |-> Q(0, 1),  c |-> Q(1, 1)],
       [s |-> Q(-4, 5), c |-> Q(3, 5)],
       [s |-> Q(0, 1),  c |-> Q(-1, 1)],
       [s |-> Q(1, 1),  c |-> Q(0, 1)],
       [s |-> Q(-3, 5), c |-> Q(-4, 5)],
       [s |-> Q(4, 5),  c |-> Q(-3, 5)] >>

sin(x) == Angles[x].s

cos(x) == Angles[x].c

\* sin(2 x), which simplify() introduces
sin2(x) == Mul3(QInt(2), sin(x), cos(x))

\* the entry of Angles phi is given (row 1 of f alone reads phi)
Yaws == { 3 }

\* r_station and v_station of cell 2
NotebookStation == [r_station |-> Q(20, 1), v_station |-> Q(-1, 10)]

\* Other station parameters a run of the notebook could be given.
Stations ==
    << [r_station |-> Q(21, 1), v_station |-> Q(1, 10)],
       [r_station |-> Q(5, 1),  v_station |-> Q(3, 1)],
       [r_station |-> Q(20, 1), v_station |-> Q(0, 1)] >>

\* ------------------------------------------------------------------------
\* Cell 2: the constants of the system
\* ------------------------------------------------------------------------
Constants(st) ==
    LET m_c   == Q(12, 1)
        ixx_c == Q(1, 1)
        iyy_c == Q(8, 10)
        izz_c == Q(52, 100)
        m_w   == Q(12, 10)
        iaa_w == Q(634, 10000)
        itt_w == Q(327, 10000)
        r_w   == Q(325, 1000)
    IN  [m_c |-> m_c, ixx_c |-> ixx_c, iyy_c |-> iyy_c, izz_c |-> izz_c,
         m_w |-> m_w, iaa_w |-> iaa_w, itt_w |-> itt_w, r_w |-> r_w,
         m   |-> QAdd(m_c, QMul(QInt(2), m_w)),
         ixx |-> QAdd(ixx_c, QMul(QInt(2), itt_w)),
         iyy |-> iyy_c,
         izz |-> QAdd(izz_c, QMul(QInt(2), itt_w)),
         h   |-> Q(2, 10),
         a   |-> Q(35, 100),
         r_station |-> st.r_station,
         v_station |-> st.v_station]

\* the gravitational acceleration literal 9.81 of N
grav == Q(981, 100)

\* ------------------------------------------------------------------------
\* Cell 4: M, N, R at the valuation pt
\* ------------------------------------------------------------------------
\* BuildM with the chassis mass of M[2,0] taken for the total mass
BuildMAsym(k, pt) ==
    LET th == pt.theta
    IN  << << QAdd(k.m, QDiv(QMul(QInt(2), k.iaa_w), QSq(k.r_w))),
              Zero,
              Mul3(k.m_c, k.h, cos(th)) >>,
           << Zero,
              Add4(QMul(QAdd(k.ixx, QMul(k.m_c, QSq(k.h))), QSq(sin(th))),
                   QMul(k.izz, QSq(cos(th))),
                   QDiv(Mul3(QInt(2), k.iaa_w, QSq(k.a)), QSq(k.r_w)),
                   Mul3(QInt(2), k.m_w, QSq(k.a))),
              Zero >>,
           << Mul3(k.m, k.h, cos(th)),
              Zero,
              Mul3(k.iyy, k.m_c, QSq(k.h)) >> >>

BuildM(k, pt) ==
    LET th == pt.theta
    IN  << << QAdd(k.m, QDiv(QMul(QInt(2), k.iaa_w), QSq(k.r_w))),
              Zero,
              Mul3(k.m_c, k.h, cos(th)) >>,
           << Zero,
              Add4(QMul(QAdd(k.ixx, QMul(k.m_c, QSq(k.h))), QSq(sin(th))),
                   QMul(k.izz, QSq(cos(th))),
                   QDiv(Mul3(QInt(2), k.iaa_w, QSq(k.a)), QSq(k.r_w)),
                   Mul3(QInt(2), k.m_w, QSq(k.a))),
              Zero >>,
           << Mul3(k.m_c, k.h, cos(th)),
              Zero,
              Mul3(k.iyy, k.m_c, QSq(k.h)) >> >>

\* the factor (ixx - izz + m * h**2) of N[1]
YawInertia(k) == QAdd(QSub(k.ixx, k.izz), QMul(k.m, QSq(k.h)))

\* the factor (ixx - izz + m_c * h**2) of N[2]
PitchInertia(k) == QAdd(QSub(k.ixx, k.izz), QMul(k.m_c, QSq(k.h)))

\* BuildN with a centrifugal force of the rotating station in N[0]
BuildNStation(k, pt) ==
    LET th == pt.theta
    IN  << QAdd(Mul4(k.m_c, k.h, QAdd(QSq(pt.phidot), QSq(pt.thetadot)),
                     sin(th)),
                Mul3(k.m, k.r_station, QSq(k.v_station))),
           QSub(QMul(Mul5(QInt(-2), YawInertia(k), cos(th), sin(th),
                          pt.phidot),
                     pt.thetadot),
                Mul5(k.m_c, k.h, sin(th), pt.v, pt.phidot)),
           QAdd(Mul4(PitchInertia(k), cos(th), sin(th), QSq(pt.phidot)),
                Mul4(k.m_c, grav, k.h, sin(th))) >>

BuildN(k, pt) ==
    LET th == pt.theta
    IN  << Mul4(k.m_c, k.h, QAdd(QSq(pt.phidot), QSq(pt.thetadot)), sin(th)),
           QSub(QMul(Mul5(QInt(-2), YawInertia(k), cos(th), sin(th),
                          pt.phidot),
                     pt.thetadot),
                Mul5(k.m_c, k.h, sin(th), pt.v, pt.phidot)),
           QAdd(Mul4(PitchInertia(k), cos(th), sin(th), QSq(pt.phidot)),
                Mul4(k.m_c, grav, k.h, sin(th))) >>

\* BuildR with both wheels turning the chassis the same way
BuildRSameSign(k) ==
    << << QDiv(One, k.r_w), QDiv(One, k.r_w) >>,
       << QDiv(k.a, k.r_w), QDiv(k.a, k.r_w) >>,
       << QInt(-1), QInt(-1) >> >>

BuildR(k) ==
    << << QDiv(One, k.r_w), QDiv(One, k.r_w) >>,
       << QDiv(QNeg(k.a), k.r_w), QDiv(k.a, k.r_w) >>,
       << QInt(-1), QInt(-1) >> >>

\* the torque vector Matrix([[tau_l], [tau_r]])
Tau(pt) == << pt.tau_l, pt.tau_r >>

\* ------------------------------------------------------------------------
\* Matrix algebra
\* ------------------------------------------------------------------------
RECURSIVE Dot(_, _, _)
Dot(row, x, i) ==
    IF i = 0 THEN Zero ELSE QAdd(Dot(row, x, i - 1), QMul(row[i], x[i]))

\* A * x for a matrix A (a sequence of rows) and a column x
MatVec(A, x) == [i \in 1..Len(A) |-> Dot(A[i], x, Len(x))]

VecAdd(x, y) == [i \in 1..Len(x) |-> QAdd(x[i], y[i])]

\* the right-hand side N + R * [tau_l, tau_r]^T
Rhs(Nv, Rm, pt) == VecAdd(Nv, MatVec(Rm, Tau(pt)))

Det2(p, q, r, s) == QSub(QMul(p, s), QMul(q, r))

Det3(A) ==
    Add3(QMul(A[1][1], Det2(A[2][2], A[2][3], A[3][2], A[3][3])),
         QNeg(QMul(A[1][2], Det2(A[2][1], A[2][3], A[3][1], A[3][3]))),
         QMul(A[1][3], Det2(A[2][1], A[2][2], A[3][1], A[3][2])))

\* the product of the diagonal entries of A other than A[i][i]
OffDiagonal(A, i) ==
    IF i = 1 THEN QMul(A[2][2], A[3][3])
    ELSE IF i = 2 THEN QMul(A[1][1], A[3][3])
    ELSE QMul(A[1][1], A[2][2])

\* inv that inverts the diagonal and ignores the coupling of rows 1 and 3
invDiagonal(A) ==
    [adj |-> [i \in 1..3 |-> [j \in 1..3 |->
                 IF i = j THEN OffDiagonal(A, i) ELSE Zero]],
     det |-> Mul3(A[1][1], A[2][2], A[3][3])]

\* the cofactor of A[i][j]
Cofactor(A, i, j) ==
    LET r1 == IF i = 1 THEN 2 ELSE 1
        r2 == IF i = 3 THEN 2 ELSE 3
        c1 == IF j = 1 THEN 2 ELSE 1
        c2 == IF j = 3 THEN 2 ELSE 3
    IN  IF (i + j) % 2 = 0
        THEN Det2(A[r1][c1], A[r1][c2], A[r2][c1], A[r2][c2])
        ELSE QNeg(Det2(A[r1][c1], A[r1][c2], A[r2][c1], A[r2][c2]))

\* M.inv(): the inverse of a 3x3 matrix, kept as its adjugate over its
\* determinant (the inverse is unique, whichever elimination the library
\* runs).
inv(A) ==
    [adj |-> [i \in 1..3 |-> [j \in 1..3 |-> Cofactor(A, j, i)]],
     det |-> Det3(A)]

\* Ainv * x for an inverse Ainv = adj / det and a column x
InvTimes(Ainv, x) ==
    [i \in 1..3 |-> QDiv(Dot(Ainv.adj[i], x, 3), Ainv.det)]

\* ------------------------------------------------------------------------
\* simplify(): the closed form of M^-1 (N + R tau) that the notebook shows.
\* Rows 2 and 4 are brought over the denominators -M00 * det and -det, with
\* det = M00 * M22 - (m_c h cos(theta))^2; row 3 over M11 with cos^2
\* replaced by 1 - sin^2; products of sin and cos are written as sin(2 theta).
\* ------------------------------------------------------------------------
CoeffsOf(k, M00, M22, mch, ic, it, gr) ==
    [r2_tau  |-> QDiv(QMul(M00, M22), k.r_w),
     r2_rate |-> Mul3(M00, M22, mch),
     r2_cos  |-> QMul(M00, mch),
     r2_sin2 |-> QDiv(ic, QInt(2)),
     r2_grav |-> gr,
     r2_dcos |-> QMul(M00, QSq(mch)),
     r2_den  |-> Mul3(M00, M00, M22),
     r3_cross |-> it,
     r3_v    |-> mch,
     r3_tau  |-> QDiv(k.a, k.r_w),
     r3_dsin |-> QSub(QAdd(k.ixx, QMul(k.m_c, QSq(k.h))), k.izz),
     r3_den  |-> Add3(k.izz,
                      QDiv(Mul3(QInt(2), k.iaa_w, QSq(k.a)), QSq(k.r_w)),
                      Mul3(QInt(2), k.m_w, QSq(k.a))),
     r4_sin2 |-> QMul(M00, QDiv(ic, QInt(2))),
     r4_tau  |-> M00,
     r4_cos  |-> mch,
     r4_itau |-> QDiv(One, k.r_w),
     r4_irate |-> mch,
     r4_grav |-> QMul(M00, gr),
     r4_dcos |-> QSq(mch),
     r4_den  |-> QMul(M00, M22)]

Coeffs(k) ==
    CoeffsOf(k,
             QAdd(k.m, QDiv(QMul(QInt(2), k.iaa_w), QSq(k.r_w))),
             Mul3(k.iyy, k.m_c, QSq(k.h)),
             QMul(k.m_c, k.h),
             PitchInertia(k),
             YawInertia(k),
             Mul3(k.m_c, grav, k.h))

\* the denominators of rows 2, 3 and 4 of the closed form
Den2(c, pt) == QSub(QMul(c.r2_dcos, QSq(cos(pt.theta))), c.r2_den)

Den3(c, pt) == QAdd(QMul(c.r3_dsin, QSq(sin(pt.theta))), c.r3_den)

Den4(c, pt) == QSub(QMul(c.r4_dcos, QSq(cos(pt.theta))), c.r4_den)

\* the sum of the squares of the angular rates
RateSq(pt) == QAdd(QSq(pt.phidot), QSq(pt.thetadot))

\* rows 2, 3 and 4 of f: the value of the closed form with coefficients c
\* at the valuation pt
Row2(c, pt) ==
    QDiv(Add4(QNeg(QMul(c.r2_tau, pt.tau_l)),
              QNeg(QMul(c.r2_tau, pt.tau_r)),
              QNeg(Mul3(c.r2_rate, RateSq(pt), sin(pt.theta))),
              Mul3(c.r2_cos,
                   Add4(Mul3(c.r2_sin2, QSq(pt.phidot), sin2(pt.theta)),
                        QNeg(pt.tau_l), QNeg(pt.tau_r),
                        QMul(c.r2_grav, sin(pt.theta))),
                   cos(pt.theta))),
         Den2(c, pt))

Row3(c, pt) ==
    QDiv(Add4(QNeg(Mul4(c.r3_cross, pt.phidot, pt.thetadot, sin2(pt.theta))),
              QNeg(Mul4(c.r3_v, pt.phidot, pt.v, sin(pt.theta))),
              QNeg(QMul(c.r3_tau, pt.tau_l)),
              QMul(c.r3_tau, pt.tau_r)),
         Den3(c, pt))

Row4(c, pt) ==
    QDiv(QAdd(Add4(QNeg(Mul3(c.r4_sin2, QSq(pt.phidot), sin2(pt.theta))),
                   QMul(c.r4_tau, pt.tau_l),
                   QMul(c.r4_tau, pt.tau_r),
                   Mul3(c.r4_cos,
                        Add3(QMul(c.r4_itau, pt.tau_l),
                             QMul(c.r4_itau, pt.tau_r),
                             Mul3(c.r4_irate, RateSq(pt), sin(pt.theta))),
                        cos(pt.theta))),
              QNeg(QMul(c.r4_grav, sin(pt.theta)))),
         Den4(c, pt))

ClosedForm(c, pt) == << Row2(c, pt), Row3(c, pt), Row4(c, pt) >>

\* An expression after simplify: its coefficients and its value at pt.
simplify(k, pt) ==
    LET c == Coeffs(k) IN [coef |-> c, val |-> ClosedForm(c, pt)]

\* AssembleF with f_partial stacked above v * sin(phi)
AssembleFSwapped(pt, fp) ==
    [coef |-> fp.coef, val |-> fp.val \o << QMul(pt.v, sin(pt.phi)) >>]

\* f = Matrix([[v * sin(phi)], [f_partial]])
AssembleF(pt, fp) ==
    [coef |-> fp.coef, val |-> << QMul(pt.v, sin(pt.phi)) >> \o fp.val]

\* f = simplify(f): row 1 has nothing to simplify, rows 2..4 are in closed
\* form already and are evaluated from their coefficients again.
SimplifyF(g, pt) ==
    [coef |-> g.coef, val |-> << g.val[1] >> \o ClosedForm(g.coef, pt)]

\* ------------------------------------------------------------------------
\* N_sympy(f, 3): every coefficient to three significant digits
\* ------------------------------------------------------------------------
\* the largest q in lo..hi with q * d <= n  (lo * d <= n)
RECURSIVE FloorQuot(_, _, _, _)
FloorQuot(n, d, lo, hi) ==
    IF lo = hi THEN lo
    ELSE LET mid == (lo + hi + 1) \div 2
         IN  IF NCmp(NMulSmall(d, mid), n) <= 0
             THEN FloorQuot(n, d, mid, hi)
             ELSE FloorQuot(n, d, lo, mid - 1)

\* the e in 0..3 with 100 <= (n / d) * 10^e < 1000, for 1/10 <= n / d < 1000
Exp3(n, d) ==
    IF NCmp(n, d) < 0 THEN 3
    ELSE IF NCmp(n, NMulSmall(d, 10)) < 0 THEN 2
    ELSE IF NCmp(n, NMulSmall(d, 100)) < 0 THEN 1
    ELSE 0

Pow10 == << 1, 10, 100, 1000 >>

\* Round3 that cuts the digits after the third off
Round3Truncate(x) ==
    IF x.s = 0 THEN Zero
    ELSE LET e == Exp3(x.n, x.d)
             q == FloorQuot(NMulSmall(x.n, Pow10[e + 1]), x.d, 100, 1000)
         IN  Q(x.s * q, Pow10[e + 1])

\* x rounded to three significant digits, halves to the even digit
Round3(x) ==
    IF x.s = 0 THEN Zero
    ELSE LET e  == Exp3(x.n, x.d)
             n2 == NAdd(NMulSmall(x.n, 2 * Pow10[e + 1]), x.d)
             d2 == NMulSmall(x.d, 2)
             q  == FloorQuot(n2, d2, 100, 1000)
             tie == NCmp(NMulSmall(d2, q), n2) = 0
             mant == IF tie /\ q % 2 = 1 THEN q - 1 ELSE q
         IN  Q(x.s * mant, Pow10[e + 1])

N_sympy(g) == [c \in DOMAIN g.coef |-> Round3(g.coef[c])]

\* The numbers of the recorded output of the last cell.
Recorded ==
    [r2_tau  |-> Q(184, 10),  r2_rate |-> Q(144, 10),  r2_cos  |-> Q(374, 10),
     r2_sin2 |-> Q(48, 100),  r2_grav |-> Q(235, 10),  r2_dcos |-> Q(899, 10),
     r2_den  |-> Q(935, 10),
     r3_cross |-> Q(106, 100), r3_v   |-> Q(24, 10),   r3_tau  |-> Q(108, 100),
     r3_dsin |-> Q(96, 100),  r3_den  |-> Q(103, 100),
     r4_sin2 |-> Q(749, 100), r4_tau  |-> Q(156, 10),  r4_cos  |-> Q(24, 10),
     r4_itau |-> Q(308, 100), r4_irate |-> Q(24, 10),  r4_grav |-> Q(367, 1),
     r4_dcos |-> Q(576, 100), r4_den  |-> Q(599, 100)]

\* ------------------------------------------------------------------------
\* Units.  A unit is kg^kg * m^m * s^s; an expression is described by the set
\* of the units of its terms (a sum is the union, 0 has no term).
\* ------------------------------------------------------------------------
Unit(a, b, c) == [kg |-> a, m |-> b, s |-> c]

UNum == { Unit(0, 0, 0) }

UZero == {}

UMul(A, B) == { Unit(x.kg + y.kg, x.m + y.m, x.s + y.s) : x \in A, y \in B }

UDiv(A, B) == { Unit(x.kg - y.kg, x.m - y.m, x.s - y.s) : x \in A, y \in B }

USq(A) == { Unit(2 * x.kg, 2 * x.m, 2 * x.s) : x \in A }

UAdd(A, B) == A \cup B

UMul3(A, B, C) == UMul(UMul(A, B), C)

UMul4(A, B, C, D) == UMul(UMul3(A, B, C), D)

Force == Unit(1, 1, -2)

Torque == Unit(1, 2, -2)

\* The units the comments of cells 2 and 3 give the names (moments of
\* inertia in kg m^2, angles in radians, torques in N m).
Units ==
    LET mass    == { Unit(1, 0, 0) }
        inertia == { Unit(1, 2, 0) }
        length  == { Unit(0, 1, 0) }
        rate    == { Unit(0, 0, -1) }
    IN  [m_c |-> mass, ixx_c |-> inertia, iyy_c |-> inertia, izz_c |-> inertia,
         m_w |-> mass, iaa_w |-> inertia, itt_w |-> inertia, r_w |-> length,
         m   |-> UAdd(mass, UMul(UNum, mass)),
         ixx |-> UAdd(inertia, UMul(UNum, inertia)),
         iyy |-> inertia,
         izz |-> UAdd(inertia, UMul(UNum, inertia)),
         h |-> length, a |-> length,
         grav |-> { Unit(0, 1, -2) },
         v |-> { Unit(0, 1, -1) }, phidot |-> rate, thetadot |-> rate,
         tau |-> { Torque },
         vdot |-> { Unit(0, 1, -2) },
         phiddot |-> { Unit(0, 0, -2) }, thetaddot |-> { Unit(0, 0, -2) }]

MUnits(u) ==
    << << UAdd(u.m, UDiv(UMul(UNum, u.iaa_w), USq(u.r_w))),
          UZero,
          UMul3(u.m_c, u.h, UNum) >>,
       << UZero,
          UAdd(UAdd(UMul(UAdd(u.ixx, UMul(u.m_c, USq(u.h))), UNum),
                    UMul(u.izz, UNum)),
               UAdd(UDiv(UMul3(UNum, u.iaa_w, USq(u.a)), USq(u.r_w)),
                    UMul3(UNum, u.m_w, USq(u.a)))),
          UZero >>,
       << UMul3(u.m_c, u.h, UNum),
          UZero,
          UMul3(u.iyy, u.m_c, USq(u.h)) >> >>

NUnits(u) ==
    << UMul3(u.m_c, u.h, UAdd(USq(u.phidot), USq(u.thetadot))),
       UAdd(UMul4(UNum, UAdd(UAdd(u.ixx, u.izz), UMul(u.m, USq(u.h))),
                  u.phidot, u.thetadot),
            UMul4(u.m_c, u.h, u.v, u.phidot)),
       UAdd(UMul(UAdd(UAdd(u.ixx, u.izz), UMul(u.m_c, USq(u.h))),
                 USq(u.phidot)),
            UMul3(u.m_c, u.grav, u.h)) >>

RUnits(u) ==
    << << UDiv(UNum, u.r_w), UDiv(UNum, u.r_w) >>,
       << UDiv(u.a, u.r_w), UDiv(u.a, u.r_w) >>,
       << UNum, UNum >> >>

\* the units of the terms of row i of
\*     M * [vdot, phiddot, thetaddot]^T = N + R * [tau_l, tau_r]^T
RowUnits(u) ==
    LET acc == << u.vdot, u.phiddot, u.thetaddot >>
        MU  == MUnits(u)
        NU  == NUnits(u)
        RU  == RUnits(u)
    IN  [i \in 1..3 |->
            [lhs |-> UNION { UMul(MU[i][j], acc[j]) : j \in 1..3 },
             rhs |-> NU[i] \cup UNION { UMul(RU[i][j], u.tau) : j \in 1..2 }]]

\* ------------------------------------------------------------------------
\* The run of the notebook
\* ------------------------------------------------------------------------
VARIABLES
    pc,         \* the step that runs next, "done" after the last
    executed,   \* the steps run so far, in order
    defined,    \* the names bound in the kernel's namespace
    k,          \* the constants of cell 2
    pt,         \* the valuation of the symbols of cell 3
    M, N, R,    \* the matrices at pt
    sol,        \* M.inv() * (N + R * tau), the argument of simplify
    f_partial,
    f,
    out,        \* the output of the last cell
    rowUnits    \* the units of the terms of the three equations

vars == << pc, executed, defined, k, pt, M, N, R, sol, f_partial, f, out,
           rowUnits >>

Undef == << >>

\* The steps in the order of the cells and of the statements of cell 4.
Order ==
    << "import", "constants", "symbols", "matrices", "solve", "assemble",
       "simplify", "print" >>

StepIndex(step) == CHOOSE i \in 1..Len(Order) : Order[i] = step

\* NextStep with cell 4 (the matrices) run before cell 3 (the symbols)
NextStepSwapped(step) ==
    CASE step = "constants" -> "matrices"
      [] step = "matrices"  -> "symbols"
      [] step = "symbols"   -> "solve"
      [] OTHER -> IF StepIndex(step) = Len(Order) THEN "done"
                  ELSE Order[StepIndex(step) + 1]

NextStep(step) ==
    IF StepIndex(step) = Len(Order) THEN "done"
    ELSE Order[StepIndex(step) + 1]

ConstNames ==
    { "m_c", "ixx_c", "iyy_c", "izz_c", "m_w", "iaa_w", "itt_w", "r_w", "m",
      "ixx", "iyy", "izz", "h", "a", "r_station", "v_station" }

SymbolNames ==
    { "e_lat", "phi", "phidot", "v", "theta", "thetadot", "tau_l", "tau_r" }

\* the names a step binds
Writes(step) ==
    CASE step = "import" ->
            { "sym", "np", "Symbol", "Matrix", "N_sympy", "simplify", "sin",
              "cos", "init_printing" }
      [] step = "constants" -> ConstNames
      [] step = "symbols"   -> SymbolNames
      [] step = "matrices"  -> { "M", "N", "R" }
      [] step = "solve"     -> { "f_partial" }
      [] step = "assemble"  -> { "f" }
      [] step = "simplify"  -> { "f" }
      [] step = "print"     -> {}

\* the names a step reads that it does not bind itself
Reads(step) ==
    CASE step = "import"    -> {}
      [] step = "constants" -> {}
      [] step = "symbols"   -> { "Symbol" }
      [] step = "matrices"  ->
            { "Matrix", "sin", "cos", "m", "iaa_w", "r_w", "m_c", "h", "ixx",
              "izz", "a", "m_w", "iyy", "theta", "phidot", "thetadot", "v" }
      [] step = "solve"     ->
            { "simplify", "Matrix", "M", "N", "R", "tau_l", "tau_r" }
      [] step = "assemble"  -> { "Matrix", "v", "sin", "phi", "f_partial" }
      [] step = "simplify"  -> { "simplify", "f" }
      [] step = "print"     -> { "N_sympy", "f" }
      [] step = "done"      -> {}

Init ==
    /\ pc = "import"
    /\ executed = << >>
    /\ defined = {}
    /\ k = Undef /\ pt = Undef
    /\ M = Undef /\ N = Undef /\ R = Undef
    /\ sol = Undef /\ f_partial = Undef /\ f = Undef
    /\ out = Undef /\ rowUnits = Undef

\* A step runs when it is its turn and the names it reads are bound.
Advance(step) ==
    /\ pc = step
    /\ Reads(step) \subseteq defined
    /\ pc' = NextStep(step)
    /\ executed' = Append(executed, step)
    /\ defined' = defined \cup Writes(step)

Import ==
    /\ Advance("import")
    /\ UNCHANGED << k, pt, M, N, R, sol, f_partial, f, out, rowUnits >>

DeclareConstants ==
    /\ Advance("constants")
    /\ k' = Constants(NotebookStation)
    /\ UNCHANGED << pt, M, N, R, sol, f_partial, f, out, rowUnits >>

\* the forward velocities v ranges over, backward and forward
Speeds == { QInt(-1), QInt(2) }

Rates == { QInt(i) : i \in -1..MaxRate }

Torques == { QInt(i) : i \in 0..MaxTorque }

DeclareSymbols ==
    /\ Advance("symbols")
    /\ \E th \in 1..NumAngles, ph \in Yaws, vv \in Speeds, pd, td \in Rates,
          tl, tr \in Torques :
           pt' = [theta |-> th, phi |-> ph, v |-> vv, phidot |-> pd,
                  thetadot |-> td, tau_l |-> tl, tau_r |-> tr]
    /\ UNCHANGED << k, M, N, R, sol, f_partial, f, out, rowUnits >>

BuildMatrices ==
    /\ Advance("matrices")
    /\ M' = BuildM(k, pt)
    /\ N' = BuildN(k, pt)
    /\ R' = BuildR(k)
    /\ rowUnits' = RowUnits(Units)
    /\ UNCHANGED << k, pt, sol, f_partial, f, out >>

Solve ==
    /\ Advance("solve")
    /\ sol' = InvTimes(inv(M), Rhs(N, R, pt))
    /\ f_partial' = simplify(k, pt)
    /\ UNCHANGED << k, pt, M, N, R, f, out, rowUnits >>

Assemble ==
    /\ Advance("assemble")
    /\ f' = AssembleF(pt, f_partial)
    /\ UNCHANGED << k, pt, M, N, R, sol, f_partial, out, rowUnits >>

Simplify ==
    /\ Advance("simplify")
    /\ f' = SimplifyF(f, pt)
    /\ UNCHANGED << k, pt, M, N, R, sol, f_partial, out, rowUnits >>

Display ==
    /\ Advance("print")
    /\ out' = N_sympy(f)
    /\ UNCHANGED << k, pt, M, N, R, sol, f_partial, f, rowUnits >>

Next ==
    \/ Import
    \/ DeclareConstants
    \/ DeclareSymbols
    \/ BuildMatrices
    \/ Solve
    \/ Assemble
    \/ Simplify
    \/ Display

Spec == Init /\ [][Next]_vars

\* ------------------------------------------------------------------------
\* Properties
\* ------------------------------------------------------------------------
Done(step) == \E i \in 1..Len(executed) : executed[i] = step

\* M * x = b, row by row
SolvesSystem(A, x, b) == \A i \in 1..3 : QEq(Dot(A[i], x, 3), b[i])

PlusTauL(p) == [p EXCEPT !.tau_l = QAdd(@, One)]

PlusTauR(p) == [p EXCEPT !.tau_r = QAdd(@, One)]

\* C1: the lower rows of f solve the system they were derived from: M times
\* f_partial is N + R * [tau_l, tau_r]^T row by row, both for the product
\* M.inv() * (N + R * tau) and for its simplified closed form.
C1_SolvesLinearSystem ==
    pc = "done" =>
        /\ SolvesSystem(M, sol, Rhs(N, R, pt))
        /\ SolvesSystem(M, f_partial.val, Rhs(N, R, pt))

C1_Witness ==
    /\ pc = "done"
    /\ pt.theta = 1 /\ pt.tau_l = One /\ pt.tau_r = Zero
    /\ pt.phidot = One /\ pt.thetadot = QInt(-1)
    /\ \A i \in 1..3 : f_partial.val[i].s # 0

\* C2: f has four rows; row 1 is v * sin(phi) and rows 2, 3, 4 are rows
\* 1, 2, 3 of M^-1 (N + R tau), the first of which is the equation of the
\* forward motion with the mass m + 2 * iaa_w / r_w^2.
C2_RowsOfF ==
    pc = "done" =>
        /\ Len(f.val) = 4
        /\ QEq(f.val[1], QMul(pt.v, sin(pt.phi)))
        /\ \A i \in 1..3 : QEq(f.val[i + 1], sol[i])
        /\ QEq(M[1][1], QAdd(k.m, QDiv(QMul(QInt(2), k.iaa_w), QSq(k.r_w))))

C2_Witness ==
    /\ pc = "done"
    /\ pt.v = QInt(2) /\ pt.phi = 3
    /\ \A i \in 1..4 : f.val[i].s # 0
    /\ ~QEq(f.val[2], f.val[3]) /\ ~QEq(f.val[3], f.val[4])

\* the matrices and f of a run of the notebook whose cell 2 sets the
\* station parameters st, at the valuation p
RunOf(st, p) ==
    [M |-> BuildM(Constants(st), p),
     N |-> BuildN(Constants(st), p),
     R |-> BuildR(Constants(st)),
     f |-> SimplifyF(AssembleF(p, simplify(Constants(st), p)), p)]

\* the run with the station parameters st has the matrices and the f of
\* the state (M^-1 (N + R tau) is a function of M, N, R and pt)
SameRun(st) == RunOf(st, pt) = [M |-> M, N |-> N, R |-> R, f |-> f]

\* C3: f is a function of the state and of the torques only: a run with
\* other station parameters r_station and v_station builds the same M, N
\* and R and gives the same f at every valuation.
C3_IndependentOfStation ==
    pc = "done" => \A i \in 1..NumStations : SameRun(Stations[i])

C3_Witness ==
    /\ pc = "done"
    /\ \A i \in 1..NumStations :
           /\ ~QEq(Stations[i].r_station, k.r_station)
           /\ ~QEq(Stations[i].v_station, k.v_station)
    /\ \A i \in 1..4 : f.val[i].s # 0

\* C4: a positive wheel torque moves the segbot forward: row 2 of f grows
\* with tau_l and with tau_r, the coefficient of either torque,
\* (M[2,2]/r_w + m_c*h*cos(theta)) / (M[0,0]*M[2,2] - (m_c*h*cos(theta))^2),
\* being positive.
C4_TorqueMovesForward ==
    pc = "done" =>
        /\ QLt(f.val[2], Row2(f.coef, PlusTauL(pt)))
        /\ QLt(f.val[2], Row2(f.coef, PlusTauR(pt)))
        /\ QPos(QDiv(QAdd(QDiv(M[3][3], k.r_w), M[1][3]),
                     Det2(M[1][1], M[1][3], M[3][1], M[3][3])))

\* C5: the yaw acceleration depends on the torques through tau_r - tau_l
\* only, with the positive coefficient (a / r_w) / M[1,1]: row 3 of f is
\* (N[1] + (a/r_w) * (tau_r - tau_l)) / M[1,1], equal torques contribute
\* nothing, and a larger right torque turns the segbot left.
C5_YawFromTorqueDifference ==
    pc = "done" =>
        LET yaw == QDiv(QAdd(N[2], QMul(R[2][2], QSub(pt.tau_r, pt.tau_l))),
                        M[2][2])
        IN  /\ QEq(R[2][1], QNeg(R[2][2]))
            /\ QEq(R[2][2], QDiv(k.a, k.r_w))
            /\ QPos(QDiv(R[2][2], M[2][2]))
            /\ QEq(f.val[3], yaw)
            /\ QEq(sol[2], yaw)
            /\ QEq(pt.tau_l, pt.tau_r) => QEq(f.val[3], QDiv(N[2], M[2][2]))
            /\ QLt(f.val[3], Row3(f.coef, PlusTauR(pt)))
            /\ QLt(Row3(f.coef, PlusTauL(pt)), f.val[3])

C5_Witness ==
    /\ pc = "done"
    /\ pt.tau_r = One /\ pt.tau_l = Zero
    /\ pt.phidot = Zero
    /\ QPos(f.val[3])

\* executed is an initial part of Order
IsPrefix(x, y) == Len(x) <= Len(y) /\ \A i \in 1..Len(x) : x[i] = y[i]

\* C6: the derivation is a single linear pass: the steps run in the order
\* of Order, each once, each only when the names it reads are bound by the
\* steps before it, and nothing runs after the print step.
C6_SingleLinearPass ==
    /\ [](/\ IsPrefix(executed, Order)
          /\ pc = (IF Len(executed) = Len(Order) THEN "done"
                   ELSE Order[Len(executed) + 1])
          /\ Reads(pc) \subseteq defined
          /\ \A i \in 1..Len(executed) :
                 Reads(executed[i]) \subseteq
                     UNION { Writes(executed[j]) : j \in 1..(i - 1) })
    /\ [][/\ pc # "done"
          /\ executed' = Append(executed, pc)
          /\ pc' = (IF Len(executed') = Len(Order) THEN "done"
                    ELSE Order[Len(executed') + 1])]_vars

C6_Witness == pc = "done" /\ executed = Order /\ out # Undef

\* C7: the output is f with every coefficient rounded to three significant
\* digits: every number of the recorded output is the rounding of the
\* coefficient computed from the constants, and printing leaves f alone.
C7_PrintedCoefficients ==
    /\ [](pc = "done" =>
            /\ DOMAIN out = DOMAIN Recorded
            /\ \A c \in DOMAIN Recorded :
                   /\ QEq(out[c], Recorded[c])
                   /\ QEq(Round3(f.coef[c]), Recorded[c]))
    /\ [][pc = "print" => f' = f]_vars

C7_Witness ==
    /\ pc = "done"
    /\ QEq(out.r4_grav, QInt(367))
    /\ ~QEq(f.coef.r4_grav, QInt(367))

\* C8: M is symmetric and positive definite at every pitch angle, so that
\* M.inv() exists and no denominator of f vanishes.
C8_MassMatrixPositiveDefinite ==
    pc = "done" =>
        LET c      == f.coef
            mch    == QMul(k.m_c, k.h)
            minor2 == Det2(M[1][1], M[1][3], M[3][1], M[3][3])
        IN  /\ \A i, j \in 1..3 : QEq(M[i][j], M[j][i])
            /\ M[1][2] = Zero /\ M[2][1] = Zero
            /\ M[2][3] = Zero /\ M[3][2] = Zero
            /\ QEq(M[1][3], QMul(mch, cos(pt.theta)))
            /\ QPos(M[1][1]) /\ QPos(M[2][2]) /\ QPos(M[3][3])
            /\ QPos(minor2)
            /\ QEq(minor2,
                   QSub(QMul(M[1][1], M[3][3]), QSq(QMul(mch, cos(pt.theta)))))
            /\ QPos(Det3(M))
            \* the least value of the minor over all angles, at cos^2 = 1
            /\ QPos(QSub(QMul(M[1][1], M[3][3]), QSq(mch)))
            /\ QPos(Den3(c, pt))
            /\ QLt(Den2(c, pt), Zero)
            /\ QLt(Den4(c, pt), Zero)

C8_Witness ==
    /\ pc = "done"
    /\ pt.theta = 4
    /\ QLt(Det2(M[1][1], M[1][3], M[3][1], M[3][3]), One)

\* C9: the three equations are dimensionally homogeneous under the units
\* of the comments: every term of row 1 is a force, every term of rows 2
\* and 3 a torque, on both sides.
C9_DimensionallyHomogeneous ==
    Done("matrices") =>
        /\ rowUnits[1].lhs = { Force }  /\ rowUnits[1].rhs = { Force }
        /\ rowUnits[2].lhs = { Torque } /\ rowUnits[2].rhs = { Torque }
        /\ rowUnits[3].lhs = { Torque } /\ rowUnits[3].rhs = { Torque }

\* dM/dtheta, entry by entry from the entries of BuildM
DMDTheta(kk, p) ==
    LET slope == Mul4(QInt(2),
                      QSub(QAdd(kk.ixx, QMul(kk.m_c, QSq(kk.h))), kk.izz),
                      sin(p.theta), cos(p.theta))
        off   == QNeg(Mul3(kk.m_c, kk.h, sin(p.theta)))
    IN  << << Zero, Zero, off >>, << Zero, slope, Zero >>,
           << off, Zero, Zero >> >>

\* d/dt of (1/2) qdot^T M qdot + m_c * 9.81 * h * cos(theta) along f
EnergyRate(kk, p, A, qddot) ==
    LET qdot == << p.v, p.phidot, p.thetadot >>
        DM   == DMDTheta(kk, p)
    IN  Add3(Dot(qdot, MatVec(A, qddot), 3),
             Mul3(Q(1, 2), p.thetadot, Dot(qdot, MatVec(DM, qdot), 3)),
             QNeg(Mul5(kk.m_c, grav, kk.h, sin(p.theta), p.thetadot)))

\* the term c * cos(theta) * sin(theta) * phidot * thetadot
VelocityTerm(c, p) ==
    Mul5(c, cos(p.theta), sin(p.theta), p.phidot, p.thetadot)

\* C10: the velocity terms of N are consistent with M: the factor of
\* cos*sin*phidot*thetadot in N[1] is -2 times the factor of
\* cos*sin*phidot^2 in N[2] and minus the theta-derivative of M[1,1] over
\* cos*sin; without torques the energy is constant along f.
C10_EnergyConserved ==
    pc = "done" =>
        /\ QEq(N[2], QSub(QMul(QInt(-2), VelocityTerm(PitchInertia(k), pt)),
                          Mul5(k.m_c, k.h, sin(pt.theta), pt.v, pt.phidot)))
        /\ QEq(QMul(QInt(-2), VelocityTerm(YawInertia(k), pt)),
               QNeg(Mul3(DMDTheta(k, pt)[2][2], pt.phidot, pt.thetadot)))
        /\ (pt.tau_l = Zero /\ pt.tau_r = Zero) =>
               QEq(EnergyRate(k, pt, M, SubSeq(f.val, 2, 4)), Zero)
====
